---- MODULE Spec2Model ----
(***************************************************************************)
(* A model of store/store.go: the Store wrapper around an object bucket.   *)
(* Object keys are sequences of one-character strings, so that the         *)
(* lexicographic order of the bucket, path.Join, strings.TrimPrefix and    *)
(* strings.TrimSuffix are computed rather than assumed.                    *)
(***************************************************************************)
EXTENDS Integers, Sequences, FiniteSets, TLC

VARIABLES bucket, call, res, scan, race

vars == <<bucket, call, res, scan, race>>

(* ------------------------------ bounds --------------------------------- *)

\* Largest byte value of an uploaded content (contents are <<>> and <<i>>).
MaxByte == 1
\* Largest limit passed to ListPaginatedObjects.
MaxLimit == 3
\* Largest number of results the backend puts in one response page.
MaxPage == 4
\* Largest number of calls of one chained traversal.
MaxCalls == 4

(* --------------------------- strings and paths ------------------------- *)

\* The characters of the model in ASCII order: '-' < '/' < 'a' < 'b' < 'c'.
CharOrder == <<"-", "/", "a", "b", "c">>

Ord(ch) == CHOOSE i \in 1..Len(CharOrder) : CharOrder[i] = ch

Min(a, b) == IF a < b THEN a ELSE b

\* Go's < on strings: byte-wise lexicographic order.
LexLess(s, t) ==
  \E i \in 1..(Min(Len(s), Len(t)) + 1) :
     /\ \A j \in 1..(i - 1) : s[j] = t[j]
     /\ \/ i = Len(s) + 1 /\ i <= Len(t)
        \/ i <= Len(s) /\ i <= Len(t) /\ Ord(s[i]) < Ord(t[i])

HasPrefix(s, p) == Len(p) <= Len(s) /\ SubSeq(s, 1, Len(p)) = p

HasSuffix(s, p) == Len(p) <= Len(s) /\ SubSeq(s, Len(s) - Len(p) + 1, Len(s)) = p

TrimPrefix(s, p) == IF HasPrefix(s, p) THEN SubSeq(s, Len(p) + 1, Len(s)) ELSE s

TrimSuffix(s, p) == IF HasSuffix(s, p) THEN SubSeq(s, 1, Len(s) - Len(p)) ELSE s

Slash == <<"/">>

\* path.Clean on paths without "." and ".." elements: runs of separators
\* collapse to one and a trailing separator is dropped (the root stays "/").
RECURSIVE Collapse(_)
Collapse(s) ==
  IF Len(s) <= 1 THEN s
  ELSE IF s[1] = "/" /\ s[2] = "/" THEN Collapse(Tail(s))
  ELSE <<s[1]>> \o Collapse(Tail(s))

Clean(s) ==
  LET c == Collapse(s)
  IN IF Len(c) > 1 /\ c[Len(c)] = "/" THEN SubSeq(c, 1, Len(c) - 1) ELSE c

\* path.Join: empty elements are ignored, the rest are joined with "/" and
\* the result is cleaned; joining only empty elements gives "".
RECURSIVE Concat(_)
Concat(parts) ==
  IF parts = <<>> THEN <<>>
  ELSE IF Head(parts) = <<>> THEN Concat(Tail(parts))
  ELSE LET rest == Concat(Tail(parts))
       IN IF rest = <<>> THEN Head(parts) ELSE Head(parts) \o Slash \o rest

JoinPath(parts) ==
  LET c == Concat(parts) IN IF c = <<>> THEN <<>> ELSE Clean(c)

(* ------------------------------ the store ------------------------------ *)

\* Store.BasePrefix: the store is opened on the bucket's root.
BasePrefix == <<>>

\* Arguments the callers pass.
Prefixes == {<<>>, <<"b">>}
FileNames == {<<"a">>, <<"c">>}
DirNames == {<<"b">>}
Contents == {<<>>} \cup {<<i>> : i \in 1..MaxByte}

\* The bucket is a function from the keys that hold an object to its bytes.
Put(b, k, data) == [x \in (DOMAIN b) \cup {k} |-> IF x = k THEN data ELSE b[x]]

Remove(b, k) == [x \in (DOMAIN b) \ {k} |-> b[x]]

EmptyBucket == [x \in {} |-> <<>>]

NoCall ==
  [op |-> "none", pc |-> "idle", src |-> <<>>, dst |-> <<>>,
   err |-> "nil", cause |-> "nil", cleanup |-> "nil",
   written |-> 0, before |-> EmptyBucket, deletes |-> 0,
   data |-> <<>>, cancelled |-> FALSE]

NoRes ==
  [called |-> FALSE, prefix |-> <<>>, startAfter |-> <<>>, limit |-> 0,
   objects |-> <<>>, lastObjectName |-> <<>>, hasMore |-> FALSE,
   err |-> "nil", iterErr |-> FALSE]

\* A chained traversal: the entries of its pages so far, the number of its
\* calls, and whether every call used the limit of the first one.
NoScan ==
  [state |-> "idle", limit |-> 0, fixed |-> TRUE, acc |-> <<>>, calls |-> 0]

\* The callers that use the Store at the same time.
Callers == {"c1", "c2"}

\* Concurrent callers: the call of each, for every object of the bucket the
\* caller whose request wrote it, and for each caller the writer of the
\* object that the cleanup of its call found at the destination.
NoRace ==
  [call |-> [c \in Callers |-> NoCall], owner |-> EmptyBucket,
   met |-> [c \in Callers |-> "none"]]

Init ==
  /\ bucket = EmptyBucket
  /\ call = NoCall
  /\ res = NoRes
  /\ scan = NoScan
  /\ race = NoRace

(* ------------------------- the object backend -------------------------- *)

\* A copy that overwrites: the destination's condition is not applied.
CopyObjectUnconditional(b, src, dst, doesNotExist, fault) ==
  IF fault THEN [err |-> "unavailable", bucket |-> b]
  ELSE IF src \notin DOMAIN b THEN [err |-> "notfound", bucket |-> b]
  ELSE [err |-> "nil", bucket |-> Put(b, dst, b[src])]

\* ObjectHandle.CopierFrom(src).Run on a destination handle that may carry
\* the DoesNotExist condition.  fault is a failure of the request itself.
CopyObject(b, src, dst, doesNotExist, fault) ==
  IF fault THEN [err |-> "unavailable", bucket |-> b]
  ELSE IF src \notin DOMAIN b THEN [err |-> "notfound", bucket |-> b]
  ELSE IF doesNotExist /\ dst \in DOMAIN b
       THEN [err |-> "precondition", bucket |-> b]
  ELSE [err |-> "nil", bucket |-> Put(b, dst, b[src])]

\* A delete that reports success and leaves the object in place.
DeleteObjectKeeps(b, key, doesNotExist, fault) ==
  IF fault THEN [err |-> "unavailable", bucket |-> b]
  ELSE IF key \notin DOMAIN b THEN [err |-> "notfound", bucket |-> b]
  ELSE IF doesNotExist THEN [err |-> "precondition", bucket |-> b]
  ELSE [err |-> "nil", bucket |-> b]

\* ObjectHandle.Delete; a handle made with If(Conditions{DoesNotExist: true})
\* sends its condition with the delete request as well.
DeleteObject(b, key, doesNotExist, fault) ==
  IF fault THEN [err |-> "unavailable", bucket |-> b]
  ELSE IF key \notin DOMAIN b THEN [err |-> "notfound", bucket |-> b]
  ELSE IF doesNotExist THEN [err |-> "precondition", bucket |-> b]
  ELSE [err |-> "nil", bucket |-> Remove(b, key)]

\* A request that does not look at its context.
WithContextIgnored(cancelled, b, r) == r

\* A request made with ctx: once ctx is cancelled the request fails with the
\* context's error before it reaches the backend.
WithContext(cancelled, b, r) ==
  IF cancelled THEN [err |-> "canceled", bucket |-> b] ELSE r

(* ------------------------------ UploadFile ----------------------------- *)

\* The caller is sequential: a call starts when the previous one returned.
CallerReady == call.pc \in {"idle", "returned"}

\* io.Copy moves the reader's bytes to the writer until the reader fails
\* after n bytes (n = Len(data): it does not fail); the deferred Close then
\* finalizes the object with the bytes written, unless Close itself fails.
UploadFile(prefix, filename, data, n, closeOk) ==
  LET key == JoinPath(<<BasePrefix, prefix, filename>>)
      sent == SubSeq(data, 1, n)
      copyErr == n < Len(data)
  IN /\ CallerReady
     /\ bucket' = IF closeOk THEN Put(bucket, key, sent) ELSE bucket
     /\ call' = [NoCall EXCEPT !.op = "upload", !.pc = "returned",
                               !.dst = key, !.data = sent,
                               !.err = IF copyErr THEN "read" ELSE "nil",
                               !.written = IF copyErr THEN 0 ELSE Len(data)]
     /\ UNCHANGED <<res, scan, race>>

(* ---------------------------- CreateDirectory -------------------------- *)

CreateDirectory(prefix, dirName, closeOk) ==
  LET joined == JoinPath(<<BasePrefix, prefix, dirName>>)
      fullPath == IF HasSuffix(joined, Slash) THEN joined ELSE joined \o Slash
  IN /\ CallerReady
     /\ bucket' = IF closeOk THEN Put(bucket, fullPath, <<>>) ELSE bucket
     /\ call' = [NoCall EXCEPT !.op = "mkdir", !.pc = "returned",
                               !.dst = fullPath,
                               !.err = IF closeOk THEN "nil" ELSE "close"]
     /\ UNCHANGED <<res, scan, race>>

(* ------------------------------ RenameObject --------------------------- *)

ErrCopy == "failed to copy object"
ErrDelete == "failed to delete source object after copying"
ErrBoth == "failed to delete source object and failed to cleanup destination object"

\* Lines 306-308 without the return: the call goes on to the delete.
AfterCopyNoReturn(c, err) ==
  IF err # "nil"
  THEN [c EXCEPT !.pc = "copied", !.err = ErrCopy, !.cause = err]
  ELSE [c EXCEPT !.pc = "copied"]

\* What RenameObject does after the copy returned err.
AfterCopy(c, err) ==
  IF err # "nil"
  THEN [c EXCEPT !.pc = "returned", !.err = ErrCopy, !.cause = err]
  ELSE [c EXCEPT !.pc = "copied"]

\* Lines 291-308: the paths, the handles, the conditional copy.
RenameCopy(sourcePrefix, sourceObjectName, destinationPrefix, destinationObjectName, fault) ==
  LET sourcePath == JoinPath(<<BasePrefix, sourcePrefix, sourceObjectName>>)
      destinationPath ==
        JoinPath(<<BasePrefix, destinationPrefix, destinationObjectName>>)
      r == CopyObject(bucket, sourcePath, destinationPath, TRUE, fault)
  IN /\ CallerReady
     /\ bucket' = r.bucket
     /\ call' = AfterCopy([NoCall EXCEPT !.op = "rename", !.src = sourcePath,
                                         !.dst = destinationPath,
                                         !.before = bucket], r.err)
     /\ UNCHANGED <<res, scan, race>>

\* Lines 310-312 and 321: the delete of the source.
RenameDeleteSource(fault) ==
  LET r == WithContext(call.cancelled, bucket,
                       DeleteObject(bucket, call.src, FALSE, fault))
  IN /\ call.op = "rename" /\ call.pc = "copied"
     /\ bucket' = r.bucket
     /\ call' = IF r.err = "nil"
                THEN [call EXCEPT !.pc = "returned", !.deletes = @ + 1]
                ELSE [call EXCEPT !.pc = "delfailed", !.cause = r.err,
                                  !.deletes = @ + 1]
     /\ UNCHANGED <<res, scan, race>>

\* A cleanup through a handle without conditions.
CleanupUnconditional == FALSE

\* The conditions of the handle the cleanup deletes through: dstObj was
\* reassigned to dstObj.If(Conditions{DoesNotExist: true}) on line 302.
CleanupDoesNotExist == TRUE

\* Lines 315-318: the error returned after the cleanup returned cleanupErr.
CleanupErrorDeleteOnly(cleanupErr) == ErrDelete

CleanupErrorSwapped(cleanupErr) ==
  IF cleanupErr # "nil" THEN ErrDelete ELSE ErrBoth

CleanupError(cleanupErr) ==
  IF cleanupErr # "nil" THEN ErrBoth ELSE ErrDelete

\* Lines 313-318: the cleanup of the copy after a failed delete.
RenameCleanup(fault) ==
  LET r == WithContext(call.cancelled, bucket,
                       DeleteObject(bucket, call.dst, CleanupDoesNotExist, fault))
  IN /\ call.op = "rename" /\ call.pc = "delfailed"
     /\ bucket' = r.bucket
     /\ call' = [call EXCEPT !.pc = "returned", !.cleanup = r.err,
                             !.deletes = @ + 1,
                             !.err = CleanupError(r.err)]
     /\ UNCHANGED <<res, scan, race>>

\* The caller cancels ctx while RenameObject is between two requests, the
\* copy done.
Cancel ==
  /\ call.op = "rename" /\ call.pc \in {"copied", "delfailed"}
  /\ ~call.cancelled
  /\ call' = [call EXCEPT !.cancelled = TRUE]
  /\ UNCHANGED <<bucket, res, scan, race>>

(* ------------------------- the backend's listing ----------------------- *)

\* The index of the first delimiter of s, 0 when s has none.
DelimIndex(s) ==
  IF \E i \in 1..Len(s) : s[i] = "/"
  THEN CHOOSE i \in 1..Len(s) : s[i] = "/" /\ \A j \in 1..(i - 1) : s[j] # "/"
  ELSE 0

\* Query.StartOffset keeps the names lexicographically equal to or after it.
StartOffsetKeeps(k, startOffset) == ~LexLess(k, startOffset)

\* time.Time{}: the zero time.
ZeroTime == 0

\* ObjectAttrs.Created and ObjectAttrs.Updated of the object at key k: times
\* the backend set, after the zero time and different from each other.
CreatedAt(k) == Len(k)

UpdatedAt(k) == Len(k) + 1

\* One result of the query for key k: the object itself, or the common
\* prefix that ends at the first delimiter after the query's Prefix.
RawResult(b, fullPrefix, k) ==
  LET rest == TrimPrefix(k, fullPrefix)
      d == DelimIndex(rest)
  IN IF d = 0
     THEN [Prefix |-> <<>>, Name |-> k, Size |-> Len(b[k]),
           Created |-> CreatedAt(k), Updated |-> UpdatedAt(k)]
     ELSE [Prefix |-> fullPrefix \o SubSeq(rest, 1, d), Name |-> <<>>, Size |-> 0,
           Created |-> ZeroTime, Updated |-> ZeroTime]

RawKey(r) == IF r.Prefix # <<>> THEN r.Prefix ELSE r.Name

RECURSIVE SortByKey(_)
SortByKey(S) ==
  IF S = {} THEN <<>>
  ELSE LET m == CHOOSE x \in S : \A y \in S \ {x} : LexLess(RawKey(x), RawKey(y))
       IN <<m>> \o SortByKey(S \ {m})

IsItem(r) == r.Prefix = <<>>

IsCommonPrefix(r) == r.Prefix # <<>>

\* The iterator buffers one response page at a time and appends the page's
\* objects first and the page's common prefixes after them.
PageOrder(page) == SelectSeq(page, IsItem) \o SelectSeq(page, IsCommonPrefix)

RECURSIVE IterOrder(_, _)
IterOrder(sorted, ps) ==
  IF Len(sorted) <= ps THEN PageOrder(sorted)
  ELSE PageOrder(SubSeq(sorted, 1, ps))
         \o IterOrder(SubSeq(sorted, ps + 1, Len(sorted)), ps)

\* BucketHandle.Objects(ctx, &Query{Prefix, Delimiter: "/", StartOffset}):
\* the sequence the iterator yields when the backend answers in pages of ps.
Objects(b, fullPrefix, startOffset, ps) ==
  LET keys == {k \in DOMAIN b : HasPrefix(k, fullPrefix)
                                  /\ StartOffsetKeeps(k, startOffset)}
  IN IterOrder(SortByKey({RawResult(b, fullPrefix, k) : k \in keys}), ps)

\* The calls of it.Next() that fetch a response page, and so can fail.
FetchSteps(items, ps) ==
  {1} \cup {n \in 1..Len(items) : (n - 1) % ps = 0}

\* it.Next(): the outcome of the n-th call on an iterator over items whose
\* failAt-th call fails (failAt = 0: no call fails).
NextOutcome(items, failAt, n) ==
  IF n = failAt THEN "error"
  ELSE IF n > Len(items) THEN "done"
  ELSE "item"

(* -------------------------- ListPaginatedObjects ----------------------- *)

\* Lines 170-175.
FullPrefix(prefix) ==
  LET joined == JoinPath(<<BasePrefix, prefix>>)
  IN IF joined # <<>> /\ ~HasSuffix(joined, Slash) THEN joined \o Slash ELSE joined

\* The names as the backend reports them: fullPrefix is not removed.
EntryNameUntrimmed(attrs, fullPrefix) ==
  IF attrs.Prefix # <<>> THEN TrimSuffix(attrs.Prefix, Slash) ELSE attrs.Name

\* Lines 203-207 and 232-235: the name reported for a raw result.
EntryName(attrs, fullPrefix) ==
  IF attrs.Prefix # <<>>
  THEN LET name == IF fullPrefix # <<>> /\ HasPrefix(attrs.Prefix, fullPrefix)
                   THEN TrimPrefix(attrs.Prefix, fullPrefix) ELSE attrs.Prefix
       IN TrimSuffix(name, Slash)
  ELSE IF fullPrefix # <<>> /\ HasPrefix(attrs.Name, fullPrefix)
       THEN TrimPrefix(attrs.Name, fullPrefix) ELSE attrs.Name

\* An entry that reports no size and no times for a file either.
ObjectInfoBare(attrs, fullPrefix) ==
  [Name |-> EntryName(attrs, fullPrefix),
   IsDir |-> attrs.Prefix # <<>>,
   Size |-> 0, Created |-> ZeroTime, Updated |-> ZeroTime]

\* Lines 210-217 and 242-249.
ObjectInfo(attrs, fullPrefix) ==
  [Name |-> EntryName(attrs, fullPrefix),
   IsDir |-> attrs.Prefix # <<>>,
   Size |-> IF attrs.Prefix # <<>> THEN 0 ELSE attrs.Size,
   Created |-> IF attrs.Prefix # <<>> THEN ZeroTime ELSE attrs.Created,
   Updated |-> IF attrs.Prefix # <<>> THEN ZeroTime ELSE attrs.Updated]

\* A loop that emits every raw result.
SkippedNever(info) == FALSE

\* Lines 209 and 238: a result whose name is empty is not emitted.
Skipped(info) == info.Name = <<>>

\* A page that is closed one entry late.
LimitReachedLate(count, limit) == count > limit

\* Lines 223, 256 and 263: count >= limit.
LimitReached(count, limit) == count >= limit

\* Line 197: the return on an iteration error.
IterationFailed ==
  [objects |-> <<>>, lastObjectName |-> <<>>, hasMore |-> FALSE,
   err |-> "error iterating objects", iterErr |-> TRUE]

\* Lines 261-270: n is the number of the next call of it.Next().
LookAhead(items, failAt, limit, n, objects, last) ==
  LET peek == NextOutcome(items, failAt, n)
      more == IF LimitReached(Len(objects), limit) THEN peek # "done" ELSE FALSE
  IN [objects |-> objects, lastObjectName |-> last, hasMore |-> more,
      err |-> "nil",
      iterErr |-> LimitReached(Len(objects), limit) /\ peek = "error"]

\* Lines 191-259: the loop, at its n-th call of it.Next().
RECURSIVE ListLoop(_, _, _, _, _, _, _)
ListLoop(items, failAt, fullPrefix, limit, n, objects, last) ==
  LET outcome == NextOutcome(items, failAt, n)
  IN IF outcome = "done"
     THEN LookAhead(items, failAt, limit, n + 1, objects, last)
     ELSE IF outcome = "error" THEN IterationFailed
     ELSE LET attrs == items[n]
              info == ObjectInfo(attrs, fullPrefix)
          IN IF Skipped(info)
             THEN ListLoop(items, failAt, fullPrefix, limit, n + 1, objects, last)
             ELSE LET objects2 == Append(objects, info)
                      last2 == RawKey(attrs)
                  IN IF LimitReached(Len(objects2), limit)
                     THEN LookAhead(items, failAt, limit, n + 1, objects2, last2)
                     ELSE ListLoop(items, failAt, fullPrefix, limit, n + 1,
                                   objects2, last2)

\* Store.ListPaginatedObjects on bucket b; ps and failAt are the backend's
\* page size and the failing call of it.Next() during this call.
ListPaginatedObjects(b, prefix, startAfter, limit, ps, failAt) ==
  LET fullPrefix == FullPrefix(prefix)
      items == Objects(b, fullPrefix, startAfter, ps)
  IN ListLoop(items, failAt, fullPrefix, limit, 1, <<>>, <<>>)

\* The record of a call and of what it returned.
ListResult(prefix, startAfter, limit, r) ==
  [called |-> TRUE, prefix |-> prefix, startAfter |-> startAfter,
   limit |-> limit, objects |-> r.objects,
   lastObjectName |-> r.lastObjectName, hasMore |-> r.hasMore,
   err |-> r.err, iterErr |-> r.iterErr]

ScanState(r) ==
  IF r.err # "nil" THEN "failed" ELSE IF r.hasMore THEN "more" ELSE "done"

\* The backend's choices during one call: a page size and a failing fetch.
BackendChoice(b, prefix, startAfter, ps, failAt) ==
  \/ failAt = 0
  \/ failAt \in FetchSteps(Objects(b, FullPrefix(prefix), startAfter, ps), ps)

\* ListPaginatedObjects(ctx, prefix, "", limit): the first page of the
\* caller's traversal.
ListFirst(prefix, limit, ps, failAt) ==
  LET r == ListPaginatedObjects(bucket, prefix, <<>>, limit, ps, failAt)
  IN /\ scan.state = "idle"
     /\ BackendChoice(bucket, prefix, <<>>, ps, failAt)
     /\ res' = ListResult(prefix, <<>>, limit, r)
     /\ scan' = [state |-> ScanState(r), limit |-> limit, fixed |-> TRUE,
                 acc |-> r.objects, calls |-> 1]
     /\ UNCHANGED <<bucket, call, race>>

\* ListPaginatedObjects(ctx, prefix, lastObjectName, limit): the caller
\* chains the cursor of the previous call, which reported hasMore.
ListNext(limit, ps, failAt) ==
  LET r == ListPaginatedObjects(bucket, res.prefix, res.lastObjectName,
                                limit, ps, failAt)
  IN /\ scan.state = "more"
     /\ scan.calls < MaxCalls
     /\ BackendChoice(bucket, res.prefix, res.lastObjectName, ps, failAt)
     /\ res' = ListResult(res.prefix, res.lastObjectName, limit, r)
     /\ scan' = [state |-> ScanState(r), limit |-> scan.limit,
                 fixed |-> scan.fixed /\ limit = scan.limit,
                 acc |-> scan.acc \o r.objects, calls |-> scan.calls + 1]
     /\ UNCHANGED <<bucket, call, race>>

Next ==
  \/ \E p \in Prefixes, f \in FileNames, d \in Contents, ok \in BOOLEAN :
       \E n \in 0..Len(d) : UploadFile(p, f, d, n, ok)
  \/ \E p \in Prefixes, d \in DirNames, ok \in BOOLEAN : CreateDirectory(p, d, ok)
  \/ \E sp \in Prefixes, sn \in FileNames, dp \in Prefixes, dn \in FileNames,
        fault \in BOOLEAN : RenameCopy(sp, sn, dp, dn, fault)
  \/ \E fault \in BOOLEAN : RenameDeleteSource(fault)
  \/ \E fault \in BOOLEAN : RenameCleanup(fault)
  \/ Cancel

Spec == Init /\ [][Next]_vars

(* ----------------- listing a bucket the store has filled --------------- *)

\* Keys that UploadFile and CreateDirectory write: at the root the files "a",
\* "/a" and "b-", under "b" the files of FileNames, and the placeholders of
\* "b" and "b/b".
ListFileNames == {<<"a">>, <<"/", "a">>, <<"b", "-">>}

ListKeys ==
  {JoinPath(<<BasePrefix, p, f>>) : p \in {<<>>}, f \in ListFileNames}
    \cup {JoinPath(<<BasePrefix, p, f>>) : p \in Prefixes \ {<<>>}, f \in FileNames}
    \cup {JoinPath(<<BasePrefix, p, d>>) \o Slash : p \in Prefixes, d \in DirNames}

BucketOf(S, data) == [k \in S |-> IF HasSuffix(k, Slash) THEN <<>> ELSE data]

\* The files hold one byte, the placeholders none.
InitList ==
  /\ bucket \in {BucketOf(S, <<MaxByte>>) : S \in SUBSET ListKeys}
  /\ call = NoCall
  /\ res = NoRes
  /\ scan = NoScan
  /\ race = NoRace

NextList ==
  \/ \E p \in Prefixes, limit \in 1..MaxLimit, ps \in 1..MaxPage,
        failAt \in 0..MaxPage : ListFirst(p, limit, ps, failAt)
  \/ \E limit \in 1..MaxLimit, ps \in 1..MaxPage, failAt \in 0..MaxPage :
       ListNext(limit, ps, failAt)

SpecList == InitList /\ [][NextList]_vars

(* ------------ a traversal while another caller writes ------------------ *)

\* The prefix the traversal lists, and the name under it that the other
\* caller uploads and renames away.
ScanPrefix == <<"b">>

MovingName == <<"a">>

\* The keys under ScanPrefix that nobody writes during the traversal: the
\* placeholder of the directory "b/b" and the file "b/c".
StaticKeys ==
  {JoinPath(<<BasePrefix, ScanPrefix, d>>) \o Slash : d \in DirNames}
    \cup {JoinPath(<<BasePrefix, ScanPrefix, f>>) : f \in FileNames \ {MovingName}}

\* The keys that may or may not be there when the traversal starts: the
\* moving file and the placeholder of the listed directory.
OptionalKeys ==
  {JoinPath(<<BasePrefix, ScanPrefix, MovingName>>),
   JoinPath(<<BasePrefix, ScanPrefix>>) \o Slash}

InitScan ==
  /\ bucket \in {BucketOf(StaticKeys \cup S, <<>>) : S \in SUBSET OptionalKeys}
  /\ call = NoCall
  /\ res = NoRes
  /\ scan = NoScan
  /\ race = NoRace

\* One caller chains ListPaginatedObjects over ScanPrefix; between its calls
\* another caller uploads the moving file and renames it out of the prefix.
\* No request of either caller fails here.
NextScan ==
  \/ \E limit \in 1..MaxLimit, ps \in 1..MaxPage :
       ListFirst(ScanPrefix, limit, ps, 0)
  \/ \E limit \in 1..MaxLimit, ps \in 1..MaxPage : ListNext(limit, ps, 0)
  \/ UploadFile(ScanPrefix, MovingName, <<>>, 0, TRUE)
  \/ \E dn \in FileNames : RenameCopy(ScanPrefix, MovingName, <<>>, dn, FALSE)
  \/ RenameDeleteSource(FALSE)

SpecScan == InitScan /\ [][NextScan]_vars

(* ---------------------- callers that share the bucket ------------------ *)

RaceReady(c) == race.call[c].pc \in {"idle", "returned"}

\* The writers of the objects after a request of caller c that wrote key.
OwnerAfterWrite(r, key, c) ==
  IF r.err = "nil" THEN Put(race.owner, key, c) ELSE race.owner

OwnerAfterDelete(r, key) ==
  IF r.err = "nil" THEN Remove(race.owner, key) ELSE race.owner

\* UploadFile by caller c, the reader and the writer not failing.
RaceUploadFile(c, prefix, filename, data) ==
  LET key == JoinPath(<<BasePrefix, prefix, filename>>)
  IN /\ RaceReady(c)
     /\ bucket' = Put(bucket, key, data)
     /\ race' = [call |-> [race.call EXCEPT ![c] =
                             [NoCall EXCEPT !.op = "upload", !.pc = "returned",
                                            !.dst = key, !.data = data,
                                            !.written = Len(data)]],
                 owner |-> Put(race.owner, key, c),
                 met |-> [race.met EXCEPT ![c] = "none"]]
     /\ UNCHANGED <<call, res, scan>>

\* Lines 291-308 of RenameObject, called by c.
RaceRenameCopy(c, sourcePrefix, sourceObjectName, destinationPrefix, destinationObjectName, fault) ==
  LET sourcePath == JoinPath(<<BasePrefix, sourcePrefix, sourceObjectName>>)
      destinationPath ==
        JoinPath(<<BasePrefix, destinationPrefix, destinationObjectName>>)
      r == CopyObject(bucket, sourcePath, destinationPath, TRUE, fault)
  IN /\ RaceReady(c)
     /\ bucket' = r.bucket
     /\ race' = [call |-> [race.call EXCEPT ![c] =
                             AfterCopy([NoCall EXCEPT !.op = "rename",
                                                      !.src = sourcePath,
                                                      !.dst = destinationPath],
                                       r.err)],
                 owner |-> OwnerAfterWrite(r, destinationPath, c),
                 met |-> [race.met EXCEPT ![c] = "none"]]
     /\ UNCHANGED <<call, res, scan>>

\* Lines 310-312 and 321 of RenameObject, called by c.
RaceDeleteSource(c, fault) ==
  LET mine == race.call[c]
      r == DeleteObject(bucket, mine.src, FALSE, fault)
  IN /\ mine.op = "rename" /\ mine.pc = "copied"
     /\ bucket' = r.bucket
     /\ race' = [race EXCEPT
                   !.call[c] = IF r.err = "nil"
                               THEN [mine EXCEPT !.pc = "returned",
                                                 !.deletes = @ + 1]
                               ELSE [mine EXCEPT !.pc = "delfailed",
                                                 !.cause = r.err,
                                                 !.deletes = @ + 1],
                   !.owner = OwnerAfterDelete(r, mine.src)]
     /\ UNCHANGED <<call, res, scan>>

\* Lines 313-318 of RenameObject, called by c.
RaceCleanup(c, fault) ==
  LET mine == race.call[c]
      r == DeleteObject(bucket, mine.dst, CleanupDoesNotExist, fault)
  IN /\ mine.op = "rename" /\ mine.pc = "delfailed"
     /\ bucket' = r.bucket
     /\ race' = [race EXCEPT
                   !.call[c] = [mine EXCEPT !.pc = "returned",
                                            !.cleanup = r.err,
                                            !.deletes = @ + 1,
                                            !.err = CleanupError(r.err)],
                   !.owner = OwnerAfterDelete(r, mine.dst),
                   !.met[c] = IF mine.dst \in DOMAIN bucket
                              THEN race.owner[mine.dst] ELSE "none"]
     /\ UNCHANGED <<call, res, scan>>

InitRace == Init

\* The objects the callers contend for, as prefix and name: "a", "b/a" and
\* "c"; renames go into "c" and into "b/a".
RacePaths == {<<p, <<"a">>>> : p \in Prefixes} \cup {<<<<>>, <<"c">>>>}

RaceDestinations == {<<<<>>, <<"c">>>>, <<<<"b">>, <<"a">>>>}

\* The callers upload empty files: who wrote an object is in race.owner.
NextRace ==
  \/ \E c \in Callers, to \in RacePaths : RaceUploadFile(c, to[1], to[2], <<>>)
  \/ \E c \in Callers, from \in RacePaths, to \in RaceDestinations,
        fault \in BOOLEAN :
       RaceRenameCopy(c, from[1], from[2], to[1], to[2], fault)
  \/ \E c \in Callers, fault \in BOOLEAN : RaceDeleteSource(c, fault)
  \/ \E c \in Callers, fault \in BOOLEAN : RaceCleanup(c, fault)

SpecRace == InitRace /\ [][NextRace]_vars

(* ============================ the properties =========================== *)

\* A RenameObject call has returned; nothing else has run since.
RenameReturned == call.op = "rename" /\ call.pc = "returned"

\* The source held an object when RenameObject was called.
SourceExisted == call.src \in DOMAIN call.before

\* Key k holds, now, the bytes the source held when RenameObject was called.
HoldsSourceContent(k) ==
  k \in DOMAIN bucket /\ bucket[k] = call.before[call.src]

\* The copy succeeded and the delete of the source failed: the cleanup ran.
DeleteFailedAfterCopy == RenameReturned /\ call.deletes = 2

\* The immediate children of fullPrefix in bucket b: the files directly
\* under it and the directories that hold at least one key.
Children(b, fullPrefix) ==
  LET rest(k) == TrimPrefix(k, fullPrefix)
      under == {k \in DOMAIN b : HasPrefix(k, fullPrefix)}
      files == {[Name |-> rest(k), IsDir |-> FALSE] :
                  k \in {x \in under : DelimIndex(rest(x)) = 0}}
      dirs == {[Name |-> SubSeq(rest(k), 1, DelimIndex(rest(k)) - 1), IsDir |-> TRUE] :
                  k \in {x \in under : DelimIndex(rest(x)) > 0}}
  IN {c \in files \cup dirs : c.Name # <<>>}

\* The raw backend key of an entry or child of fullPrefix.
EntryKey(fullPrefix, e) ==
  fullPrefix \o e.Name \o (IF e.IsDir THEN Slash ELSE <<>>)

Entry(o) == [Name |-> o.Name, IsDir |-> o.IsDir]

EntrySet(objects) == {Entry(objects[i]) : i \in 1..Len(objects)}

\* C1: a chained traversal with a fixed limit that has reached
\* hasMore=false has returned every immediate child of the prefix exactly
\* once: as many entries as there are children, and the same set.
C1_TraversalReturnsEachChildOnce ==
  (scan.state = "done" /\ scan.fixed)
    => /\ Len(scan.acc) = Cardinality(Children(bucket, FullPrefix(res.prefix)))
       /\ EntrySet(scan.acc) = Children(bucket, FullPrefix(res.prefix))

\* C2: the cursor is an exclusive lower bound: every entry of a call with a
\* non-empty startAfter has a raw key strictly greater than startAfter.
C2_CursorIsExclusive ==
  (res.called /\ res.err = "nil" /\ res.startAfter # <<>>)
    => \A i \in 1..Len(res.objects) :
         LexLess(res.startAfter,
                 EntryKey(FullPrefix(res.prefix), res.objects[i]))

\* C3: after RenameObject returned no error, the source key holds no object
\* and the destination key holds exactly the bytes the source held.
C3_RenameMovesContent ==
  (RenameReturned /\ call.err = "nil")
    => /\ SourceExisted
       /\ call.dst \notin DOMAIN call.before
       /\ call.src \notin DOMAIN bucket
       /\ HoldsSourceContent(call.dst)

C3_Witness ==
  /\ RenameReturned /\ call.err = "nil"
  /\ SourceExisted /\ call.before[call.src] # <<>>
  /\ DOMAIN bucket # {call.dst}

\* C4: RenameObject onto a key that already holds an object fails in its
\* copy, with the precondition failure unless the request itself failed,
\* and the source and the destination objects are both left as they were.
C4_ExistingDestinationRefused ==
  (RenameReturned /\ SourceExisted /\ call.dst \in DOMAIN call.before)
    => /\ call.err = ErrCopy
       /\ call.cause \in {"precondition", "unavailable"}
       /\ call.src \in DOMAIN bucket /\ bucket[call.src] = call.before[call.src]
       /\ call.dst \in DOMAIN bucket /\ bucket[call.dst] = call.before[call.dst]

C4_Witness ==
  /\ RenameReturned /\ SourceExisted /\ call.dst \in DOMAIN call.before
  /\ call.src # call.dst
  /\ call.before[call.src] # call.before[call.dst]
  /\ call.cause = "precondition"

\* C5: when the copy of RenameObject fails, whatever the reason, the call
\* returns the copy error having issued no delete, and the bucket is as it
\* was when the call started.
C5_CopyFailureChangesNothing ==
  (RenameReturned /\ call.err = ErrCopy)
    => /\ call.deletes = 0
       /\ call.cause # "nil"
       /\ bucket = call.before

C5_Witness ==
  /\ RenameReturned /\ call.err = ErrCopy
  /\ call.cause = "unavailable"
  /\ SourceExisted /\ call.dst \notin DOMAIN call.before

C7_DuplicateOnlyWithCombinedError ==
  (RenameReturned /\ SourceExisted)
    => /\ (DeleteFailedAfterCopy /\ call.cleanup # "nil") => call.err = ErrBoth
       /\ (call.src # call.dst /\ HoldsSourceContent(call.src)
             /\ HoldsSourceContent(call.dst)) => call.err = ErrBoth

\* C7 as amended: when the delete of the source and the cleanup both failed,
\* the call returns the combined error, which differs from the two other
\* errors; and a return that leaves the source in place next to a
\* destination object that this call's copy created is exactly a return
\* with the combined error.
C7_CreatedDuplicateOnlyWithCombinedError ==
  (RenameReturned /\ SourceExisted)
    => /\ (DeleteFailedAfterCopy /\ call.cleanup # "nil") => call.err = ErrBoth
       /\ ErrBoth \notin {ErrCopy, ErrDelete, "nil"}
       /\ (call.dst \notin DOMAIN call.before /\ HoldsSourceContent(call.src)
             /\ HoldsSourceContent(call.dst)) <=> call.err = ErrBoth

C7_Witness ==
  /\ RenameReturned /\ call.err = ErrBoth
  /\ call.cause = "unavailable" /\ call.cleanup = "unavailable"
  /\ HoldsSourceContent(call.src) /\ HoldsSourceContent(call.dst)

C9_IterationErrorDiscardsPage ==
  res.iterErr
    => /\ res.err # "nil"
       /\ res.objects = <<>>
       /\ res.lastObjectName = <<>>
       /\ ~res.hasMore

\* C10: a call that returns no error returns hasMore=true exactly when the
\* prefix has a listable child, in the range of the query, that is not in
\* the returned page.
C10_HasMoreIsExact ==
  (res.called /\ res.err = "nil")
    => (res.hasMore <=>
          \E c \in Children(bucket, FullPrefix(res.prefix)) \ EntrySet(res.objects) :
             StartOffsetKeeps(EntryKey(FullPrefix(res.prefix), c), res.startAfter))

\* The children of fullPrefix that a query starting at startAfter covers.
InRange(b, fullPrefix, startAfter) ==
  {c \in Children(b, fullPrefix) :
     StartOffsetKeeps(EntryKey(fullPrefix, c), startAfter)}

\* A call of ListPaginatedObjects returned without an error.
Listed == res.called /\ res.err = "nil"

\* No entry of objs has a smaller name than the entry before it.
Ascending(objs) ==
  \A i \in 1..(Len(objs) - 1) : ~LexLess(objs[i + 1].Name, objs[i].Name)

\* C11: the entries of every returned page, and of the concatenation of the
\* pages of a chained traversal, are in ascending lexicographic order of
\* their reported names, directories and files interleaved.
C11_EntriesAscendByName ==
  /\ Listed => Ascending(res.objects)
  /\ scan.state \in {"more", "done"} => Ascending(scan.acc)

\* C12: no returned entry has an empty name; the results that reduce to the
\* empty name (the placeholder of the listed directory, a common prefix equal
\* to the separator) are not counted toward limit, so the page holds limit
\* entries whenever that many children are in range; and the cursor is the
\* key of the last returned entry, never the key of a skipped result.
C12_EmptyNamesSkipped ==
  Listed
    => LET fullPrefix == FullPrefix(res.prefix)
           n == Len(res.objects)
       IN /\ \A i \in 1..n : res.objects[i].Name # <<>>
          /\ n = Min(res.limit,
                     Cardinality(InRange(bucket, fullPrefix, res.startAfter)))
          /\ res.lastObjectName =
               IF n = 0 THEN <<>> ELSE EntryKey(fullPrefix, res.objects[n])

C12_Witness ==
  /\ Listed /\ res.prefix = <<"b">> /\ res.startAfter = <<>>
  /\ <<"b", "/">> \in DOMAIN bucket
  /\ res.limit = 2 /\ Len(res.objects) = 2

\* The keys under fullPrefix are one file and the placeholder of one
\* directory, as UploadFile and CreateDirectory leave them.
OneFileOneDirectory(b, fullPrefix) ==
  \E f \in FileNames, d \in DirNames :
    {k \in DOMAIN b : HasPrefix(k, fullPrefix)}
      = {fullPrefix \o f, fullPrefix \o d \o Slash}

\* C13: a returned directory entry has a name without trailing separator,
\* size 0 and zero times; a returned file entry carries the size and the
\* times of its backend object; and a prefix that holds one uploaded file and
\* one created directory lists, with a limit of two or more, as exactly those
\* two entries with hasMore=false.
C13_EntryFields ==
  Listed
    => LET fullPrefix == FullPrefix(res.prefix)
       IN /\ \A i \in 1..Len(res.objects) :
               LET e == res.objects[i]
                   k == EntryKey(fullPrefix, e)
               IN IF e.IsDir
                  THEN /\ ~HasSuffix(e.Name, Slash)
                       /\ e.Size = 0
                       /\ e.Created = ZeroTime /\ e.Updated = ZeroTime
                  ELSE /\ k \in DOMAIN bucket
                       /\ e.Size = Len(bucket[k])
                       /\ e.Created = CreatedAt(k) /\ e.Updated = UpdatedAt(k)
          /\ (OneFileOneDirectory(bucket, fullPrefix)
                /\ res.startAfter = <<>> /\ res.limit >= 2)
               => /\ Len(res.objects) = 2
                  /\ EntrySet(res.objects) = Children(bucket, fullPrefix)
                  /\ \E i, j \in 1..2 : /\ res.objects[i].IsDir
                                        /\ ~res.objects[j].IsDir
                  /\ ~res.hasMore

C13_Witness ==
  /\ Listed /\ OneFileOneDirectory(bucket, FullPrefix(res.prefix))
  /\ res.startAfter = <<>> /\ res.limit >= 2
  /\ \E i \in 1..Len(res.objects) : res.objects[i].Size > 0
  /\ \E i \in 1..Len(res.objects) : res.objects[i].IsDir

\* C14: unless the backend's iterator failed, a call on a prefix with no
\* children, the placeholder of the listed directory not counting as one,
\* returns no entries, an empty cursor, hasMore=false and no error.
C14_EmptyPrefixListsEmpty ==
  (res.called /\ ~res.iterErr /\ Children(bucket, FullPrefix(res.prefix)) = {})
    => /\ res.err = "nil"
       /\ res.objects = <<>>
       /\ res.lastObjectName = <<>>
       /\ ~res.hasMore

C14_Witness ==
  /\ res.called /\ ~res.iterErr /\ res.prefix = <<"b">>
  /\ <<"b", "/">> \in DOMAIN bucket
  /\ Children(bucket, FullPrefix(res.prefix)) = {}

\* The children of ScanPrefix that exist from the start of the traversal to
\* its end.
StaticChildren == Children(BucketOf(StaticKeys, <<>>), FullPrefix(ScanPrefix))

\* C15: when a chained traversal that ran while another caller inserted and
\* deleted keys under the prefix has reached hasMore=false, every child that
\* existed throughout is in its pages exactly once.
C15_StaticChildrenReturnedOnce ==
  scan.state = "done"
    => \A s \in StaticChildren :
         Cardinality({i \in 1..Len(scan.acc) : Entry(scan.acc[i]) = s}) = 1

\* In this step caller c made the copy request of a RenameObject call.
CopyStepOf(c) ==
  /\ race.call[c].pc \in {"idle", "returned"}
  /\ race'.call[c] # race.call[c]
  /\ race'.call[c].op = "rename"

\* C16: of the copies that callers race into one destination key, one
\* succeeds only into a key that holds no object, so no copy overwrites the
\* object of a winner; a copy that fails returns the copy error at once,
\* having changed no object (the loser's source stays, the winner's
\* destination stays), and the losing call issues no delete.
C16_CopyStep ==
  \A c \in Callers :
    CopyStepOf(c)
      => LET mine == race'.call[c]
         IN IF mine.err = "nil"
            THEN /\ mine.pc = "copied"
                 /\ mine.dst \notin DOMAIN bucket
                 /\ bucket' = Put(bucket, mine.dst, bucket[mine.src])
                 /\ race'.owner = Put(race.owner, mine.dst, c)
            ELSE /\ mine.pc = "returned" /\ mine.err = ErrCopy
                 /\ mine.deletes = 0
                 /\ bucket' = bucket /\ race'.owner = race.owner

C16_LosersChangeNothing == [][C16_CopyStep]_vars

C16_Witness ==
  \E c1, c2 \in Callers :
    LET won == race.call[c1]
        lost == race.call[c2]
    IN /\ c1 # c2 /\ won.op = "rename" /\ lost.op = "rename"
       /\ won.dst = lost.dst /\ won.src # lost.src
       /\ won.pc = "copied" /\ won.err = "nil"
       /\ lost.pc = "returned" /\ lost.err = ErrCopy
       /\ lost.cause = "precondition"
       /\ lost.src \in DOMAIN bucket /\ race.owner[lost.src] = c2
       /\ won.dst \in DOMAIN bucket /\ race.owner[won.dst] = c1

\* The bucket as the copy of the current RenameObject call left it.
CopiedBucket == Put(call.before, call.dst, call.before[call.src])

\* C17: a RenameObject call whose context was cancelled after its copy
\* completed has issued no cleanup delete, a cleanup is only ever issued
\* after a source delete that failed for another reason than cancellation,
\* and the bucket is as the last completed request, the copy, left it.
C17_NoCleanupAfterCancel ==
  RenameReturned
    => /\ call.cancelled => call.deletes < 2
       /\ call.deletes = 2 => call.cause # "canceled"
       /\ call.cancelled => bucket = CopiedBucket

\* C17 as amended: a RenameObject call whose context was cancelled after its
\* copy completed still calls the cleanup delete, which fails on the
\* cancelled context without reaching the backend; the call returns the
\* combined error, and the bucket is as the copy left it, the source and the
\* destination both holding the content.
C17_CancelledCleanupHasNoEffect ==
  (RenameReturned /\ call.cancelled)
    => /\ call.deletes = 2
       /\ call.cleanup = "canceled"
       /\ call.err = ErrBoth
       /\ bucket = CopiedBucket
       /\ HoldsSourceContent(call.src) /\ HoldsSourceContent(call.dst)

C17_Witness ==
  /\ RenameReturned /\ call.cancelled
  /\ call.cause = "canceled" /\ call.cleanup = "canceled"
  /\ call.src # call.dst /\ call.before[call.src] # <<>>

\* C18: when UploadFile has returned a nil error, the key
\* join(BasePrefix, prefix, filename) holds an object whose content is the
\* bytes read from the reader, also when the writer's Close failed.
C18_UploadNilMeansStored ==
  (call.op = "upload" /\ call.pc = "returned" /\ call.err = "nil")
    => /\ call.dst \in DOMAIN bucket
       /\ bucket[call.dst] = call.data

\* C20: the cleanup request of a RenameObject call removes no object but
\* the one this call's copy wrote at its destination: every object at
\* another key, and every object that another caller wrote, is in the bucket
\* after the request as before it.
C20_CleanupStep ==
  \A c \in Callers :
    (race.call[c].pc = "delfailed" /\ race'.call[c].pc = "returned")
      => \A k \in DOMAIN bucket :
           (k # race.call[c].dst \/ race.owner[k] # c)
             => /\ k \in DOMAIN bucket' /\ bucket'[k] = bucket[k]
                /\ race'.owner[k] = race.owner[k]

C20_CleanupSparesOthers == [][C20_CleanupStep]_vars

C20_Witness ==
  \E c \in Callers :
    LET mine == race.call[c]
    IN /\ mine.op = "rename" /\ mine.pc = "returned" /\ mine.deletes = 2
       /\ race.met[c] \in Callers \ {c}
       /\ mine.dst \in DOMAIN bucket /\ race.owner[mine.dst] = race.met[c]

\* C19: a returned page holds at most limit entries, and one that holds
\* fewer has consumed the whole iterator: every child in the range of the
\* query is in the page, and hasMore is false.
C19_PageWithinLimit ==
  Listed
    => /\ Len(res.objects) <= res.limit
       /\ Len(res.objects) < res.limit
            => /\ ~res.hasMore
               /\ InRange(bucket, FullPrefix(res.prefix), res.startAfter)
                    \subseteq EntrySet(res.objects)

C19_Witness ==
  /\ Listed /\ res.limit = 2 /\ Len(res.objects) = 2 /\ res.hasMore
  /\ Cardinality(Children(bucket, FullPrefix(res.prefix))) > 2

\* The entries that the calls of the traversal before the last one returned.
ReturnedBefore ==
  EntrySet(SubSeq(scan.acc, 1, Len(scan.acc) - Len(res.objects)))

\* C21: a chained traversal makes progress: a call that was given a cursor
\* and returns hasMore=true returns a cursor strictly greater than the one it
\* was given, and every call after the first returns at least one entry that
\* no earlier call of the traversal returned.
C21_TraversalProgresses ==
  (Listed /\ scan.calls >= 2)
    => /\ res.hasMore => LexLess(res.startAfter, res.lastObjectName)
       /\ EntrySet(res.objects) \ ReturnedBefore # {}

\* C22: when the copy succeeded, the delete of the source failed and the
\* cleanup request reached an available backend, the cleanup succeeds and
\* the destination key holds no object afterwards.
C22_CleanupNotConditional ==
  (DeleteFailedAfterCopy /\ call.cleanup \notin {"unavailable", "canceled"})
    => /\ call.cleanup = "nil"
       /\ call.dst \notin DOMAIN bucket

\* A RenameObject call of a source that held an object has made its copy
\* request and may have returned.
RenameUnderWay ==
  /\ call.op = "rename" /\ call.pc \in {"copied", "delfailed", "returned"}
  /\ SourceExisted

\* C23: in every state of a RenameObject call after its copy request, its
\* return included, and whichever of its requests failed, the source key or
\* the destination key holds the content the source held when the call began.
C23_ContentNeverLost ==
  RenameUnderWay
    => HoldsSourceContent(call.src) \/ HoldsSourceContent(call.dst)

C23_Witness ==
  /\ RenameUnderWay /\ call.pc = "delfailed"
  /\ call.src # call.dst /\ call.before[call.src] # <<>>
  /\ call.dst \notin DOMAIN call.before

====
